---- MODULE Spec2Model ----
(***************************************************************************)
(* Client Reconnection Controller: the SSEClient class of                 *)
(* apps/frontend/src/lib/queries.ts (lines 167-325), together with the    *)
(* EventSource transport and the timer queue it runs against.             *)
(*                                                                         *)
(* Time is abstract: a setTimeout callback is a pending timer that may    *)
(* fire at any later step, so the length of reconnectInterval is not      *)
(* represented, only the fact that one callback was scheduled.            *)
(***************************************************************************)
EXTENDS Integers, Sequences, FiniteSets, TLC

\* ---------------------------------------------------------------- bounds
MaxTimers == 2        \* pending setTimeout callbacks explored
MaxBodyLen == 1       \* characters in a frame's data body
MaxEmitted == 3       \* ChangeEvents counted in the adapter's sequence
MaxTime == 2          \* distinct values of NOW() across statements
MaxSubscribers == 2   \* handles Register hands out
MaxPublish == 4       \* Publish calls
Capacity == 2         \* capacity of a subscriber's queue
MaxNative == 2        \* listeners on() stacks up for one type on one transport

\* ------------------------------------------------------------- constants
DEFAULT_MAX_RETRIES == 5          \* the literal of `maxRetries || 5`
BACKOFF_BASE == 1                 \* the adapter's first retry delay, seconds
BACKOFF_CAP == 30                 \* the adapter's longest retry delay
NULL == "null"
MESSAGE == "message"
CONNECTING == "CONNECTING"
OPEN == "OPEN"
CustomTypes == {"participant-updated", "room-renamed"}
EventTypes == {MESSAGE} \cup CustomTypes
Handlers == {"h1", "h2"}
UNTYPED == ""                     \* a frame without an `event:` field
FrameTags == {UNTYPED} \cup EventTypes
Chars == {"1", "[", "]"}
Bodies == UNION {[1..n -> Chars] : n \in 0..MaxBodyLen}
MaxRetriesChoices == {1, DEFAULT_MAX_RETRIES}

VARIABLES
  options,         \* this.options after the constructor's merge
  urlOk,           \* whether `new EventSource(this.url)` succeeds
  throwers,        \* the application callbacks that throw when invoked
  eventSource,     \* NULL, or the readyState of the current EventSource
  esListeners,     \* listeners attached to the current EventSource, per type
  nativeHandlers,  \* keys of this.nativeHandlers
  retryCount,      \* this.retryCount
  listeners,       \* this.listeners: type -> callbacks in insertion order
  timers,          \* pending setTimeout(() => this.connect()) callbacks
  nonClosed,       \* EventSource objects created and not yet closed
  lastOp,          \* history: the operation that produced this state
  frame,           \* history: the frame delivered by the last step, if any
  calls,           \* history: callback invocations made by the last step
  stopped,         \* history: disconnect() called and connect() not since
  attempts,        \* history: connection attempts of an undisturbed run
  givenUp,         \* history: handleError logged "giving up", and since
                   \*   then no open and no connect() by the application
  events,          \* rows of table events
  participants,    \* rows of table participants
  notified,        \* pg_notify calls made by the last statement's triggers
  rowOps,          \* history: row-level operations of the last statement
  policy,          \* the Hub's configured overflow policy
  registry,        \* handles of the registered subscribers
  queue,           \* handle -> pending events, oldest first
  inflight,        \* the event of the Publish in progress, 0 if none
  todo,            \* subscribers of its snapshot not yet delivered to
  issued,          \* number of handles Register has returned
  published,       \* number of Publish calls begun
  regAt,           \* history: handle -> `published` when it registered
  received,        \* history: handle -> events its session dequeued,
                   \*   forgotten when the session unregisters
  overflowed,      \* history: handles whose queue was full at a delivery
  lastHub,         \* history: the Hub operation of the last step
  adState,         \* the adapter's state
  adDelay,         \* the adapter's current backoff delay
  adOut,           \* the ChangeEvent the adapter emitted in the last step
  adEmitted,       \* number of ChangeEvents the adapter has emitted
  adLast,          \* history: what the adapter did in the last step
  session,         \* handle -> state of the Stream Session that holds it
  twin,            \* the SSEClient of lib/sse-client.ts, as one record
  twinCalls        \* history: callback invocations the twin made last step

config == <<options, urlOk, throwers>>
prog == <<eventSource, esListeners, nativeHandlers, retryCount, listeners,
          timers, nonClosed>>
hist == <<lastOp, frame, calls, stopped, attempts, givenUp>>
client == <<config, prog, hist>>
db == <<events, participants, notified, rowOps>>
hub == <<policy, registry, queue, inflight, todo, issued, published, regAt,
         received, overflowed, lastHub>>
adapter == <<adState, adDelay, adOut, adEmitted, adLast>>
pair == <<twin, twinCalls>>
vars == <<options, urlOk, throwers, eventSource, esListeners, nativeHandlers,
          retryCount, listeners, timers, nonClosed, lastOp, frame, calls,
          stopped, attempts, givenUp, events, participants, notified, rowOps,
          policy, registry, queue, inflight, todo, issued, published, regAt,
          received, overflowed, lastHub, adState, adDelay, adOut, adEmitted,
          adLast, session, twin, twinCalls>>

\* ------------------------------------------------------------- helpers
Range(s) == {s[i] : i \in 1..Len(s)}

Remove(s, h) == SelectSeq(s, LAMBDA x : x # h)

NoNative == [t \in CustomTypes |-> 0]

NoCalls == [p \in EventTypes \X Handlers |-> 0]

NoFrame == [tag |-> NULL, parsed |-> FALSE]

\* The SSEClient object and its environment as one record.
Self ==
  [eventSource |-> eventSource, esListeners |-> esListeners,
   nativeHandlers |-> nativeHandlers, retryCount |-> retryCount,
   listeners |-> listeners, timers |-> timers, nonClosed |-> nonClosed]

Becomes(s) ==
  /\ eventSource' = s.eventSource
  /\ esListeners' = s.esListeners
  /\ nativeHandlers' = s.nativeHandlers
  /\ retryCount' = s.retryCount
  /\ listeners' = s.listeners
  /\ timers' = s.timers
  /\ nonClosed' = s.nonClosed

\* ------------------------------------------------------------ JSON.parse
\* JSON.parse restricted to the texts over Chars: a number is a non-empty
\* run of digits, an array is "[" value? "]" (no comma in the alphabet).
RECURSIVE ParseValue(_)
ParseValue(b) ==
  IF Len(b) = 0 THEN [ok |-> FALSE, value |-> <<>>]
  ELSE IF \A i \in 1..Len(b) : b[i] = "1"
    THEN [ok |-> TRUE, value |-> Len(b)]
  ELSE IF b[1] = "[" /\ b[Len(b)] = "]" /\ Len(b) >= 2
    THEN IF Len(b) = 2 THEN [ok |-> TRUE, value |-> <<>>]
         ELSE LET inner == ParseValue(SubSeq(b, 2, Len(b) - 1))
              IN  [ok |-> inner.ok, value |-> <<inner.value>>]
  ELSE [ok |-> FALSE, value |-> <<>>]

JSONParse(b) == ParseValue(b)

\* ------------------------------------------------------ SSEClient methods
RetryCeiling ==
  IF options.maxRetries = 0 THEN DEFAULT_MAX_RETRIES ELSE options.maxRetries

\* Variant: the ceiling test off by one (<= for <).
CanRetry_OffByOne(s) == options.reconnect /\ s.retryCount <= RetryCeiling

\* Variant: the `reconnect` option is not consulted.
CanRetry_IgnoresReconnect(s) == s.retryCount < RetryCeiling

CanRetry(s) == options.reconnect /\ s.retryCount < RetryCeiling

\* Variant: disconnect() also zeroes the retry counter.
disconnect_ClearsRetry(s) ==
  IF s.eventSource # NULL
    THEN [s EXCEPT !.eventSource = NULL, !.esListeners = NoNative,
                   !.nativeHandlers = {}, !.nonClosed = @ - 1,
                   !.retryCount = 0]
    ELSE [s EXCEPT !.retryCount = 0]

disconnect(s) ==
  IF s.eventSource # NULL
    THEN [s EXCEPT !.eventSource = NULL, !.esListeners = NoNative,
                   !.nativeHandlers = {}, !.nonClosed = @ - 1]
    ELSE s

\* Variant: the transport is not torn down before the retry is scheduled.
handleError_NoTeardown(s) ==
  IF CanRetry(s)
    THEN [s EXCEPT !.retryCount = @ + 1, !.timers = @ + 1]
    ELSE s

handleError(s) ==
  LET d == disconnect(s)
  IN  IF CanRetry(d)
        THEN [d EXCEPT !.retryCount = @ + 1, !.timers = @ + 1]
        ELSE d

\* Variant: no nativeHandlers.has() test, one more listener per call.
addNativeListener_NoDedup(s, t) ==
  IF s.eventSource = NULL
    THEN s
    ELSE [s EXCEPT !.esListeners[t] = @ + 1,
                   !.nativeHandlers = @ \cup {t}]

addNativeListener(s, t) ==
  IF s.eventSource = NULL \/ t \in s.nativeHandlers
    THEN s
    ELSE [s EXCEPT !.esListeners[t] = @ + 1,
                   !.nativeHandlers = @ \cup {t}]

RECURSIVE attachTypes(_, _)
attachTypes(s, ts) ==
  IF ts = {} THEN s
  ELSE LET t == CHOOSE x \in ts : TRUE
       IN  attachTypes(addNativeListener(s, t), ts \ {t})

\* Variant: connect() does not re-attach the registered custom types.
attachCustomListeners_None(s) == s

attachCustomListeners(s) ==
  IF s.eventSource = NULL THEN s
  ELSE attachTypes(s, {t \in DOMAIN s.listeners : t # MESSAGE})

\* Variant: no "already connected" early return.
connect_NoGuard(s) ==
  IF urlOk
    THEN attachCustomListeners(
           [s EXCEPT !.eventSource = CONNECTING, !.nonClosed = @ + 1])
    ELSE handleError(s)

connect(s) ==
  IF s.eventSource # NULL THEN s
  ELSE IF urlOk
    THEN attachCustomListeners(
           [s EXCEPT !.eventSource = CONNECTING, !.nonClosed = @ + 1])
    ELSE handleError(s)

\* Variant: onopen without `this.retryCount = 0`.
onopen_KeepsRetry(s) == [s EXCEPT !.eventSource = OPEN]

onopen(s) == [s EXCEPT !.eventSource = OPEN, !.retryCount = 0]

\* Variant: isConnected() without the readyState test.
isConnected_AnyTransport(s) == s.eventSource # NULL

\* eventSource !== null && eventSource.readyState === EventSource.OPEN
isConnected(s) == s.eventSource = OPEN

on(s, t, h) ==
  LET cur == IF t \in DOMAIN s.listeners THEN s.listeners[t] ELSE <<>>
      new == IF h \in Range(cur) THEN cur ELSE Append(cur, h)
      reg == [s EXCEPT !.listeners =
                [x \in DOMAIN s.listeners \cup {t} |->
                   IF x = t THEN new ELSE s.listeners[x]]]
  IN  IF reg.eventSource # NULL /\ t # MESSAGE
        THEN addNativeListener(reg, t)
        ELSE reg

off(s, t, h) ==
  IF t \notin DOMAIN s.listeners THEN s
  ELSE LET del == [s EXCEPT !.listeners[t] = Remove(@, h)]
       IN  IF /\ Len(del.listeners[t]) = 0
              /\ del.eventSource # NULL
              /\ t # MESSAGE
              /\ t \in del.nativeHandlers
             THEN [del EXCEPT !.esListeners[t] = @ - 1,
                              !.nativeHandlers = @ \ {t}]
             ELSE del

\* handleMessage: the callbacks it invokes, in order, as <<key, callback>>
\* pairs.  An exception (JSON.parse or a callback) leaves the try block.
\* Variant: the wildcard pass without its `type !== 'message'` test.
NotifiesWildcard_Always(type) == TRUE

NotifiesWildcard(type) == type # MESSAGE

Planned(ls, type) ==
  LET typed == IF type \in DOMAIN ls
                 THEN [i \in 1..Len(ls[type]) |-> <<type, ls[type][i]>>]
                 ELSE <<>>
      wild  == IF NotifiesWildcard(type) /\ MESSAGE \in DOMAIN ls
                 THEN [i \in 1..Len(ls[MESSAGE]) |-> <<MESSAGE, ls[MESSAGE][i]>>]
                 ELSE <<>>
  IN  typed \o wild

UntilThrow(inv) ==
  LET bad == {i \in 1..Len(inv) : inv[i][2] \in throwers}
  IN  IF bad = {} THEN inv
      ELSE SubSeq(inv, 1, CHOOSE i \in bad : \A j \in bad : i <= j)

\* Variant: callbacks run although JSON.parse threw.
handleMessage_NoParseGuard(ls, evType, body) ==
  UntilThrow(Planned(ls, IF evType = "" THEN MESSAGE ELSE evType))

handleMessage(ls, evType, body) ==
  IF ~JSONParse(body).ok THEN <<>>
  ELSE UntilThrow(Planned(ls, IF evType = "" THEN MESSAGE ELSE evType))

\* ------------------------------------------------------------- EventSource
\* The type of the MessageEvent the transport dispatches for a frame.
EventTypeOf(tag) == IF tag = UNTYPED THEN MESSAGE ELSE tag

\* How many times the transport calls handleMessage for one frame: once
\* through onmessage for a "message" event, once per listener attached
\* with addEventListener for any other type.
Receivers(s, evType) ==
  IF evType = MESSAGE THEN 1 ELSE s.esListeners[evType]

Count(inv, p) == Cardinality({i \in 1..Len(inv) : inv[i] = p})

Dispatch(s, tag, body) ==
  LET evType == EventTypeOf(tag)
      inv == handleMessage(s.listeners, evType, body)
  IN  [p \in EventTypes \X Handlers |-> Receivers(s, evType) * Count(inv, p)]

\* --------------------------------------------- lib/sse-client.ts SSEClient
\* The second SSEClient of the repository (the one the hooks import).  It
\* keeps no nativeHandlers map: connect() installs onopen, onerror and
\* onmessage only, on() calls addEventListener with a fresh closure on
\* every call made while a transport exists, off() only deletes the
\* callback, and disconnect() closes the transport with whatever was
\* attached to it.  handleMessage and handleError read as in queries.ts.
disconnect4(s) ==
  IF s.eventSource # NULL
    THEN [s EXCEPT !.eventSource = NULL, !.esListeners = NoNative]
    ELSE s

handleError4(s) ==
  LET d == disconnect4(s)
  IN  IF CanRetry(d)
        THEN [d EXCEPT !.retryCount = @ + 1, !.timers = @ + 1]
        ELSE d

connect4(s) ==
  IF s.eventSource # NULL THEN s
  ELSE IF urlOk
    THEN [s EXCEPT !.eventSource = CONNECTING]
    ELSE handleError4(s)

on4(s, t, h) ==
  LET cur == IF t \in DOMAIN s.listeners THEN s.listeners[t] ELSE <<>>
      new == IF h \in Range(cur) THEN cur ELSE Append(cur, h)
      reg == [s EXCEPT !.listeners =
                [x \in DOMAIN s.listeners \cup {t} |->
                   IF x = t THEN new ELSE s.listeners[x]]]
  IN  IF reg.eventSource # NULL /\ t # MESSAGE
        THEN [reg EXCEPT !.esListeners[t] = @ + 1]
        ELSE reg

off4(s, t, h) ==
  IF t \notin DOMAIN s.listeners THEN s
  ELSE [s EXCEPT !.listeners[t] = Remove(@, h)]

\* ---------------------------------------------------- datastore triggers
\* migrations/001_initial_schema.sql: the two tables, the foreign key with
\* ON DELETE CASCADE, and the AFTER ... FOR EACH ROW triggers that call
\* pg_notify.  A row keeps its key columns and one column standing for the
\* remaining ones (title for events, status for participants).  A statement
\* is one action; rowOps lists the row-level operations it performed and
\* notified the pg_notify calls its triggers made, in firing order.
EventIds == {"e1", "e2"}
ParticipantIds == {"p1", "p2"}
Titles == {"a", "b"}
Statuses == {"registered", "confirmed"}
Times == 1..MaxTime

EventRows == [id : EventIds, title : Titles]

ParticipantRows == [id : ParticipantIds, event_id : EventIds, status : Statuses]

NoRow == [id |-> NULL]

RowWithId(table, id) == CHOOSE r \in table : r.id = id

\* Variant: the DELETE branch also sends the row.
notify_event_changes_DataOnDelete(TG_OP, TG_TABLE_NAME, old, new, now) ==
  [channel |-> "event_changes",
   payload |-> [operation |-> TG_OP, table |-> TG_TABLE_NAME,
                id |-> IF TG_OP = "DELETE" THEN old.id ELSE new.id,
                data |-> IF TG_OP = "DELETE" THEN old ELSE new,
                timestamp |-> now]]

notify_event_changes(TG_OP, TG_TABLE_NAME, old, new, now) ==
  IF TG_OP = "DELETE"
    THEN [channel |-> "event_changes",
          payload |-> [operation |-> TG_OP, table |-> TG_TABLE_NAME,
                       id |-> old.id, timestamp |-> now]]
    ELSE [channel |-> "event_changes",
          payload |-> [operation |-> TG_OP, table |-> TG_TABLE_NAME,
                       id |-> new.id, data |-> new, timestamp |-> now]]

\* Variant: the DELETE branch leaves out event_id.
notify_participant_changes_NoParentOnDelete(TG_OP, TG_TABLE_NAME, old, new, now) ==
  IF TG_OP = "DELETE"
    THEN [channel |-> "participant_changes",
          payload |-> [operation |-> TG_OP, table |-> TG_TABLE_NAME,
                       id |-> old.id, timestamp |-> now]]
    ELSE [channel |-> "participant_changes",
          payload |-> [operation |-> TG_OP, table |-> TG_TABLE_NAME,
                       id |-> new.id, event_id |-> new.event_id,
                       data |-> new, timestamp |-> now]]

notify_participant_changes(TG_OP, TG_TABLE_NAME, old, new, now) ==
  IF TG_OP = "DELETE"
    THEN [channel |-> "participant_changes",
          payload |-> [operation |-> TG_OP, table |-> TG_TABLE_NAME,
                       id |-> old.id, event_id |-> old.event_id,
                       timestamp |-> now]]
    ELSE [channel |-> "participant_changes",
          payload |-> [operation |-> TG_OP, table |-> TG_TABLE_NAME,
                       id |-> new.id, event_id |-> new.event_id,
                       data |-> new, timestamp |-> now]]

\* CREATE TRIGGER event_changes_trigger / participant_changes_trigger:
\* the notification the AFTER ROW trigger of the table sends for one row.
AfterRowTrigger(op, now) ==
  IF op.table = "events"
    THEN notify_event_changes(op.op, op.table, op.old, op.new, now)
    ELSE notify_participant_changes(op.op, op.table, op.old, op.new, now)

RowOp(table, tgop, old, new) ==
  [table |-> table, op |-> tgop, old |-> old, new |-> new]

\* One statement: the triggers fire once for each row it touched.
Executes(ops, now) ==
  /\ rowOps' = ops
  /\ notified' = [i \in 1..Len(ops) |-> AfterRowTrigger(ops[i], now)]

RECURSIVE DeleteOps(_)
DeleteOps(rows) ==
  IF rows = {} THEN <<>>
  ELSE LET r == CHOOSE x \in rows : TRUE
       IN  <<RowOp("participants", "DELETE", r, NoRow)>> \o DeleteOps(rows \ {r})

InitDb ==
  /\ events = {}
  /\ participants = {}
  /\ notified = <<>>
  /\ rowOps = <<>>

InsertEvent(new, now) ==
  /\ \A r \in events : r.id # new.id
  /\ events' = events \cup {new}
  /\ Executes(<<RowOp("events", "INSERT", NoRow, new)>>, now)
  /\ UNCHANGED participants
  /\ UNCHANGED <<client, hub, adapter, session, pair>>

UpdateEvent(new, now) ==
  /\ \E r \in events : r.id = new.id
  /\ LET old == RowWithId(events, new.id)
     IN  /\ events' = (events \ {old}) \cup {new}
         /\ Executes(<<RowOp("events", "UPDATE", old, new)>>, now)
  /\ UNCHANGED participants
  /\ UNCHANGED <<client, hub, adapter, session, pair>>

\* ON DELETE CASCADE removes the event's participants; their row triggers
\* fire as well.
DeleteEvent(id, now) ==
  /\ \E r \in events : r.id = id
  /\ LET old == RowWithId(events, id)
         owned == {p \in participants : p.event_id = id}
     IN  /\ events' = events \ {old}
         /\ participants' = participants \ owned
         /\ Executes(DeleteOps(owned)
                       \o <<RowOp("events", "DELETE", old, NoRow)>>, now)
  /\ UNCHANGED <<client, hub, adapter, session, pair>>

InsertParticipant(new, now) ==
  /\ \A r \in participants : r.id # new.id
  /\ \E e \in events : e.id = new.event_id
  /\ participants' = participants \cup {new}
  /\ Executes(<<RowOp("participants", "INSERT", NoRow, new)>>, now)
  /\ UNCHANGED events
  /\ UNCHANGED <<client, hub, adapter, session, pair>>

UpdateParticipant(new, now) ==
  /\ \E r \in participants : r.id = new.id
  /\ \E e \in events : e.id = new.event_id
  /\ LET old == RowWithId(participants, new.id)
     IN  /\ participants' = (participants \ {old}) \cup {new}
         /\ Executes(<<RowOp("participants", "UPDATE", old, new)>>, now)
  /\ UNCHANGED events
  /\ UNCHANGED <<client, hub, adapter, session, pair>>

DeleteParticipant(id, now) ==
  /\ \E r \in participants : r.id = id
  /\ LET old == RowWithId(participants, id)
     IN  /\ participants' = participants \ {old}
         /\ Executes(<<RowOp("participants", "DELETE", old, NoRow)>>, now)
  /\ UNCHANGED events
  /\ UNCHANGED <<client, hub, adapter, session, pair>>

NextDb ==
  \/ \E new \in EventRows, now \in Times : InsertEvent(new, now)
  \/ \E new \in EventRows, now \in Times : UpdateEvent(new, now)
  \/ \E id \in EventIds, now \in Times : DeleteEvent(id, now)
  \/ \E new \in ParticipantRows, now \in Times : InsertParticipant(new, now)
  \/ \E new \in ParticipantRows, now \in Times : UpdateParticipant(new, now)
  \/ \E id \in ParticipantIds, now \in Times : DeleteParticipant(id, now)

\* ----------------------------------------------------------- Broadcast Hub
\* The in-process fan-out of the backend.  A handle is the number Register
\* returned; an event is the number of the Publish call that carries it.
\* Publish runs on one producer task: it takes a snapshot of the registry
\* (copy-on-write) and then delivers to the snapshot's subscribers one at a
\* time, so Register, Unregister and the sessions' receives interleave with
\* it between two deliveries.
Subscribers == 1..MaxSubscribers
DROP_OLDEST == "drop-oldest"
DROP_SUBSCRIBER == "drop-subscriber"
OverflowPolicies == {DROP_OLDEST, DROP_SUBSCRIBER}

\* The Hub's own state as one record.
Hub == [registry |-> registry, queue |-> queue, todo |-> todo]

HubBecomes(H) ==
  /\ registry' = H.registry
  /\ queue' = H.queue
  /\ todo' = H.todo

\* Variant: the newest event goes to the front of the queue.
enqueue_AtHead(q, e) == <<e>> \o q

enqueue(q, e) == Append(q, e)

\* Variant: a subscriber registered during a Publish joins its fan-out.
register_JoinsInFlight(H, h) ==
  [H EXCEPT !.registry = @ \cup {h}, !.queue[h] = <<>>,
            !.todo = IF inflight # 0 THEN @ \cup {h} ELSE @]

register(H, h) ==
  [H EXCEPT !.registry = @ \cup {h}, !.queue[h] = <<>>]

\* Variant: the entry is removed but its queue is left in place.
unregister_KeepsQueue(H, h) == [H EXCEPT !.registry = @ \ {h}]

unregister(H, h) ==
  [H EXCEPT !.registry = @ \ {h}, !.queue[h] = <<>>]

\* Variant: a full queue always drops its oldest event.
deliver_AlwaysDropOldest(H, h, e) ==
  IF h \notin H.registry THEN H
  ELSE IF Len(H.queue[h]) < Capacity
    THEN [H EXCEPT !.queue[h] = enqueue(@, e)]
    ELSE [H EXCEPT !.queue[h] = enqueue(Tail(@), e)]

\* One delivery of Publish: to an entry that was removed meanwhile it is a
\* silent no-op; a full queue is handled by the overflow policy.
deliver(H, h, e) ==
  IF h \notin H.registry THEN H
  ELSE IF Len(H.queue[h]) < Capacity
    THEN [H EXCEPT !.queue[h] = enqueue(@, e)]
    ELSE IF policy = DROP_OLDEST
      THEN [H EXCEPT !.queue[h] = enqueue(Tail(@), e)]
      ELSE unregister(H, h)

NoHubOp == [op |-> "none", h |-> 0, pending |-> 0, registered |-> FALSE]

\* What the last step did; for a delivery also to whom, how many events
\* were pending there and whether the subscriber was still registered.
HubOp(op) == [NoHubOp EXCEPT !.op = op]

Delivery(h) ==
  [op |-> "deliver", h |-> h, pending |-> Len(queue[h]),
   registered |-> h \in registry]

InitHub ==
  /\ policy \in OverflowPolicies
  /\ registry = {}
  /\ queue = [h \in Subscribers |-> <<>>]
  /\ inflight = 0
  /\ todo = {}
  /\ issued = 0
  /\ published = 0
  /\ regAt = [h \in Subscribers |-> 0]
  /\ received = [h \in Subscribers |-> <<>>]
  /\ overflowed = {}
  /\ lastHub = NoHubOp

\* Register(): a session opens and gets the next handle.
Register ==
  /\ issued < MaxSubscribers
  /\ HubBecomes(register(Hub, issued + 1))
  /\ issued' = issued + 1
  /\ regAt' = [regAt EXCEPT ![issued + 1] = published]
  /\ lastHub' = HubOp("register")
  /\ UNCHANGED <<policy, inflight, published, received, overflowed>>
  /\ UNCHANGED <<client, db, adapter, session, pair>>

\* Unregister(handle), by any holder of a handle, any number of times.
Unregister(h) ==
  /\ h <= issued
  /\ HubBecomes(unregister(Hub, h))
  /\ received' = IF h \in registry THEN [received EXCEPT ![h] = <<>>]
                                     ELSE received
  /\ lastHub' = HubOp("unregister")
  /\ UNCHANGED <<policy, inflight, issued, published, regAt, overflowed>>
  /\ UNCHANGED <<client, db, adapter, session, pair>>

\* Publish(event) begins: the registry is snapshot for the fan-out.
Publish ==
  /\ inflight = 0
  /\ published < MaxPublish
  /\ inflight' = published + 1
  /\ published' = published + 1
  /\ todo' = registry
  /\ lastHub' = HubOp("publish")
  /\ UNCHANGED <<policy, registry, queue, issued, regAt, received, overflowed>>
  /\ UNCHANGED <<client, db, adapter, session, pair>>

\* Publish delivers to one subscriber of its snapshot.
PublishDeliver(h) ==
  /\ inflight # 0
  /\ h \in todo
  /\ HubBecomes([deliver(Hub, h, inflight) EXCEPT !.todo = @ \ {h}])
  /\ overflowed' = IF h \in registry /\ Len(queue[h]) >= Capacity
                     THEN overflowed \cup {h} ELSE overflowed
  /\ lastHub' = Delivery(h)
  /\ UNCHANGED <<policy, inflight, issued, published, regAt, received>>
  /\ UNCHANGED <<client, db, adapter, session, pair>>

\* Publish returns to the producer.
PublishReturn ==
  /\ inflight # 0
  /\ todo = {}
  /\ inflight' = 0
  /\ lastHub' = HubOp("return")
  /\ UNCHANGED <<policy, registry, queue, todo, issued, published, regAt,
                 received, overflowed>>
  /\ UNCHANGED <<client, db, adapter, session, pair>>

\* The session of subscriber h takes the next event from its queue.
Receive(h) ==
  /\ h \in registry
  /\ queue[h] # <<>>
  /\ received' = [received EXCEPT ![h] = Append(@, Head(queue[h]))]
  /\ queue' = [queue EXCEPT ![h] = Tail(@)]
  /\ lastHub' = HubOp("receive")
  /\ UNCHANGED <<policy, registry, inflight, todo, issued, published, regAt,
                 overflowed>>
  /\ UNCHANGED <<client, db, adapter, session, pair>>

NextHub ==
  \/ Register
  \/ \E h \in Subscribers : Unregister(h)
  \/ Publish
  \/ \E h \in Subscribers : PublishDeliver(h)
  \/ PublishReturn
  \/ \E h \in Subscribers : Receive(h)

\* ------------------------------------------------------------ Stream Session
\* One session per subscriber handle: it takes events from its queue and
\* writes them, or a heartbeat, to the client.  A failed write makes it
\* unregister its handle and terminate; a session whose subscriber the Hub
\* dropped finds its queue gone and terminates as well.
S_NONE == "none"
S_RUNNING == "running"
S_FAILING == "write-failed"
S_ENDED == "ended"

\* Variant: the session terminates without unregistering.
terminate_WithoutUnregister(H, h) == H

\* What a session does to the Hub when it ends after a failed write.
terminate(H, h) == unregister(H, h)

\* A client opens a stream: Register() and a session for the handle.
SessionOpens ==
  /\ issued < MaxSubscribers
  /\ HubBecomes(register(Hub, issued + 1))
  /\ issued' = issued + 1
  /\ session' = [session EXCEPT ![issued + 1] = S_RUNNING]
  /\ lastHub' = HubOp("register")
  /\ UNCHANGED <<policy, inflight, published, regAt, received, overflowed>>
  /\ UNCHANGED <<client, db, adapter, pair>>

\* The session writes the next event of its queue to the client.
SessionWrites(h) ==
  /\ session[h] = S_RUNNING
  /\ h \in registry
  /\ queue[h] # <<>>
  /\ queue' = [queue EXCEPT ![h] = Tail(@)]
  /\ lastHub' = HubOp("receive")
  /\ UNCHANGED <<policy, registry, inflight, todo, issued, published, regAt,
                 received, overflowed, session>>
  /\ UNCHANGED <<client, db, adapter, pair>>

\* A write fails: of the next event, which is lost, or of a heartbeat.
SessionWriteFails(h, heartbeat) ==
  /\ session[h] = S_RUNNING
  /\ h \in registry
  /\ ~heartbeat => queue[h] # <<>>
  /\ queue' = IF heartbeat THEN queue ELSE [queue EXCEPT ![h] = Tail(@)]
  /\ session' = [session EXCEPT ![h] = S_FAILING]
  /\ lastHub' = HubOp("write-failed")
  /\ UNCHANGED <<policy, registry, inflight, todo, issued, published, regAt,
                 received, overflowed>>
  /\ UNCHANGED <<client, db, adapter, pair>>

\* The session unregisters its handle and terminates.
SessionEnds(h) ==
  /\ session[h] = S_FAILING
  /\ HubBecomes(terminate(Hub, h))
  /\ session' = [session EXCEPT ![h] = S_ENDED]
  /\ lastHub' = HubOp("unregister")
  /\ UNCHANGED <<policy, inflight, issued, published, regAt, received,
                 overflowed>>
  /\ UNCHANGED <<client, db, adapter, pair>>

\* The session of a subscriber the Hub has dropped terminates.
SessionEvicted(h) ==
  /\ session[h] = S_RUNNING
  /\ h \notin registry
  /\ session' = [session EXCEPT ![h] = S_ENDED]
  /\ lastHub' = HubOp("evicted")
  /\ UNCHANGED <<policy, registry, queue, inflight, todo, issued, published,
                 regAt, received, overflowed>>
  /\ UNCHANGED <<client, db, adapter, pair>>

NextSession ==
  \/ SessionOpens
  \/ Publish
  \/ \E h \in Subscribers : PublishDeliver(h)
  \/ PublishReturn
  \/ \E h \in Subscribers : SessionWrites(h)
  \/ \E h \in Subscribers, heartbeat \in BOOLEAN : SessionWriteFails(h, heartbeat)
  \/ \E h \in Subscribers : SessionEnds(h)
  \/ \E h \in Subscribers : SessionEvicted(h)

\* ---------------------------------------------------- Change Source Adapter
\* The task that holds the datastore subscription.  It is Connecting until
\* the subscription is made, Subscribed while it lasts, Disconnected after a
\* loss until the backoff delay has passed, and Shutdown for good after an
\* explicit shutdown.  A connection attempt that fails is repeated from
\* within Connecting with a doubled delay, up to the cap.  A notification
\* raised while the adapter is not Subscribed is never seen; one that does
\* not decode is dropped.
AD_CONNECTING == "Connecting"
AD_SUBSCRIBED == "Subscribed"
AD_DISCONNECTED == "Disconnected"
AD_SHUTDOWN == "Shutdown"
AdapterStates == {AD_CONNECTING, AD_SUBSCRIBED, AD_DISCONNECTED, AD_SHUTDOWN}

TgOps == {"INSERT", "UPDATE", "DELETE"}
SampleEvent == [id |-> "e1", title |-> "a"]
SampleParticipant == [id |-> "p1", event_id |-> "e1", status |-> "registered"]

\* What the channels can carry: the payloads the triggers build, a payload
\* with a table tag the adapter does not know, and text that is not a
\* structured payload at all.
Notifications ==
  {notify_event_changes(o, "events", SampleEvent, SampleEvent, t).payload :
     o \in TgOps, t \in Times}
  \cup
  {notify_participant_changes(o, "participants", SampleParticipant,
                              SampleParticipant, t).payload :
     o \in TgOps, t \in Times}
  \cup {[operation |-> "INSERT", table |-> "rooms", id |-> "r1", timestamp |-> 1]}
  \cup {[raw |-> "not a payload"]}

NoEvent == [operation |-> NULL]

OperationOf(tgop) ==
  CASE tgop = "INSERT" -> "Created"
    [] tgop = "UPDATE" -> "Updated"
    [] tgop = "DELETE" -> "Deleted"

\* Decoding of one notification into a ChangeEvent, NoEvent when it fails.
Decode(n) ==
  IF "operation" \notin DOMAIN n \/ "table" \notin DOMAIN n
       \/ "id" \notin DOMAIN n
    THEN NoEvent
  ELSE IF n.table \notin {"events", "participants"} \/ n.operation \notin TgOps
    THEN NoEvent
  ELSE [operation |-> OperationOf(n.operation),
        entityKind |-> IF n.table = "events" THEN "PrimaryRecord"
                                             ELSE "DependentRecord",
        entityId |-> n.id,
        parentId |-> IF "event_id" \in DOMAIN n THEN n.event_id ELSE NULL,
        snapshot |-> IF "data" \in DOMAIN n THEN n.data ELSE NoRow,
        occurredAt |-> n.timestamp]

\* Variant: a notification is decoded and emitted in any state.
Emits_InAnyState(state, n) == Decode(n)

\* The ChangeEvent the adapter's sequence yields for a notification.
Emits(state, n) == IF state = AD_SUBSCRIBED THEN Decode(n) ELSE NoEvent

\* Bounded exponential backoff.
Backoff(delay) == IF 2 * delay > BACKOFF_CAP THEN BACKOFF_CAP ELSE 2 * delay

InitAdapter ==
  /\ adState = AD_CONNECTING
  /\ adDelay = BACKOFF_BASE
  /\ adOut = NoEvent
  /\ adEmitted = 0
  /\ adLast = "start"

\* The subscription is established.
AdSubscribed ==
  /\ adState = AD_CONNECTING
  /\ adState' = AD_SUBSCRIBED
  /\ adDelay' = BACKOFF_BASE
  /\ adOut' = NoEvent
  /\ adLast' = "subscribed"
  /\ UNCHANGED adEmitted
  /\ UNCHANGED <<client, db, hub, session, pair>>

\* A connection attempt fails; the next one waits longer.
AdAttemptFails ==
  /\ adState = AD_CONNECTING
  /\ adDelay' = Backoff(adDelay)
  /\ adOut' = NoEvent
  /\ adLast' = "attempt-failed"
  /\ UNCHANGED <<adState, adEmitted>>
  /\ UNCHANGED <<client, db, hub, session, pair>>

\* The underlying connection drops.
AdConnectionLost ==
  /\ adState = AD_SUBSCRIBED
  /\ adState' = AD_DISCONNECTED
  /\ adOut' = NoEvent
  /\ adLast' = "lost"
  /\ UNCHANGED <<adDelay, adEmitted>>
  /\ UNCHANGED <<client, db, hub, session, pair>>

\* The backoff delay has passed.
AdRetry ==
  /\ adState = AD_DISCONNECTED
  /\ adState' = AD_CONNECTING
  /\ adOut' = NoEvent
  /\ adLast' = "retry"
  /\ UNCHANGED <<adDelay, adEmitted>>
  /\ UNCHANGED <<client, db, hub, session, pair>>

\* Explicit shutdown.
AdShutdown ==
  /\ adState # AD_SHUTDOWN
  /\ adState' = AD_SHUTDOWN
  /\ adOut' = NoEvent
  /\ adLast' = "shutdown"
  /\ UNCHANGED <<adDelay, adEmitted>>
  /\ UNCHANGED <<client, db, hub, session, pair>>

\* The datastore raises a notification on one of the channels.
AdNotification(n) ==
  /\ Emits(adState, n) # NoEvent => adEmitted < MaxEmitted
  /\ adOut' = Emits(adState, n)
  /\ adEmitted' = IF Emits(adState, n) # NoEvent THEN adEmitted + 1
                                                 ELSE adEmitted
  /\ adLast' = IF adState # AD_SUBSCRIBED THEN "missed"
               ELSE IF Decode(n) = NoEvent THEN "dropped" ELSE "emitted"
  /\ UNCHANGED <<adState, adDelay>>
  /\ UNCHANGED <<client, db, hub, session, pair>>

NextAdapter ==
  \/ AdSubscribed
  \/ AdAttemptFails
  \/ AdConnectionLost
  \/ AdRetry
  \/ AdShutdown
  \/ \E n \in Notifications : AdNotification(n)

\* ------------------------------------------------------ components at rest
\* The SSEClient of lib/sse-client.ts right after its constructor.
NewTwin ==
  [eventSource |-> NULL, esListeners |-> NoNative, retryCount |-> 0,
   listeners |-> <<>>, timers |-> 0]

\* No session, and a twin client that is never used.
InitSessions == session = [h \in Subscribers |-> S_NONE]

InitTwin ==
  /\ twin = NewTwin
  /\ twinCalls = NoCalls

\* The SSEClient right after its constructor.
NewClient ==
  [eventSource |-> NULL, esListeners |-> NoNative, nativeHandlers |-> {},
   retryCount |-> 0, listeners |-> <<>>, timers |-> 0, nonClosed |-> 0]

\* The options the constructor merges in when none are given.
DefaultOptions == [reconnect |-> TRUE, maxRetries |-> DEFAULT_MAX_RETRIES]

\* A Hub that is never used, with its default policy.
InitHubIdle ==
  /\ InitHub
  /\ policy = DROP_SUBSCRIBER

\* A client that was constructed and never used.
ClientAtRest ==
  /\ options = DefaultOptions
  /\ urlOk = TRUE
  /\ throwers = {}
  /\ eventSource = NewClient.eventSource
  /\ esListeners = NewClient.esListeners
  /\ nativeHandlers = NewClient.nativeHandlers
  /\ retryCount = NewClient.retryCount
  /\ listeners = NewClient.listeners
  /\ timers = NewClient.timers
  /\ nonClosed = NewClient.nonClosed
  /\ lastOp = "new"
  /\ frame = NoFrame
  /\ calls = NoCalls
  /\ stopped = FALSE
  /\ attempts = 0
  /\ givenUp = FALSE

\* ------------------------------------------------------------------ Init
Init ==
  /\ options \in [reconnect : BOOLEAN, maxRetries : MaxRetriesChoices]
  /\ urlOk \in BOOLEAN
  /\ throwers = {}
  /\ eventSource = NULL
  /\ esListeners = NoNative
  /\ nativeHandlers = {}
  /\ retryCount = 0
  /\ listeners = <<>>
  /\ timers = 0
  /\ nonClosed = 0
  /\ lastOp = "new"
  /\ frame = NoFrame
  /\ calls = NoCalls
  /\ stopped = FALSE
  /\ attempts = 0
  /\ givenUp = FALSE
  /\ InitDb
  /\ InitHubIdle
  /\ InitAdapter
  /\ InitSessions
  /\ InitTwin

\* --------------------------------------------------------------- actions
Quiet == frame' = NoFrame /\ calls' = NoCalls

\* The step from s to t ran handleError and took its "giving up" branch:
\* the transport is gone and no reconnection was scheduled.
GivesUp(s, t) ==
  /\ s.eventSource # NULL \/ ~urlOk
  /\ t.eventSource = NULL
  /\ t.timers = s.timers

\* The application calls connect().
Connect ==
  /\ ~CanRetry(Self) \/ urlOk \/ eventSource # NULL \/ timers < MaxTimers
  /\ Becomes(connect(Self))
  /\ lastOp' = "connect"
  /\ stopped' = FALSE
  /\ attempts' = IF eventSource = NULL /\ retryCount = 0 /\ timers = 0
                   THEN 1 ELSE 0
  /\ givenUp' = GivesUp(Self, connect(Self))
  /\ Quiet
  /\ UNCHANGED config
  /\ UNCHANGED <<db, hub, adapter, session, pair>>

\* The application calls disconnect().
Disconnect ==
  /\ Becomes(disconnect(Self))
  /\ lastOp' = "disconnect"
  /\ stopped' = TRUE
  /\ attempts' = 0
  /\ Quiet
  /\ UNCHANGED <<config, givenUp>>
  /\ UNCHANGED <<db, hub, adapter, session, pair>>

\* The application calls on(t, h).
On(t, h) ==
  /\ Becomes(on(Self, t, h))
  /\ lastOp' = "on"
  /\ Quiet
  /\ UNCHANGED <<config, stopped, attempts, givenUp>>
  /\ UNCHANGED <<db, hub, adapter, session, pair>>

\* The application calls off(t, h).
Off(t, h) ==
  /\ Becomes(off(Self, t, h))
  /\ lastOp' = "off"
  /\ Quiet
  /\ UNCHANGED <<config, stopped, attempts, givenUp>>
  /\ UNCHANGED <<db, hub, adapter, session, pair>>

\* The transport fires `open`.
OnOpen ==
  /\ eventSource = CONNECTING
  /\ Becomes(onopen(Self))
  /\ lastOp' = "open"
  /\ givenUp' = FALSE
  /\ Quiet
  /\ UNCHANGED <<config, stopped, attempts>>
  /\ UNCHANGED <<db, hub, adapter, session, pair>>

\* The transport fires `error` (while connecting or while open).
OnError ==
  /\ eventSource # NULL
  /\ CanRetry(Self) => timers < MaxTimers
  /\ Becomes(handleError(Self))
  /\ lastOp' = "error"
  /\ attempts' = IF eventSource = CONNECTING THEN attempts ELSE 0
  /\ givenUp' = (givenUp \/ GivesUp(Self, handleError(Self)))
  /\ Quiet
  /\ UNCHANGED <<config, stopped>>
  /\ UNCHANGED <<db, hub, adapter, session, pair>>

\* A reconnection timer scheduled by handleError fires.
TimerFire ==
  /\ timers > 0
  /\ Becomes(connect([Self EXCEPT !.timers = @ - 1]))
  /\ lastOp' = "timer"
  /\ attempts' = IF attempts > 0 /\ eventSource = NULL
                   THEN attempts + 1 ELSE 0
  /\ givenUp' = (givenUp \/ GivesUp([Self EXCEPT !.timers = @ - 1],
                                    connect([Self EXCEPT !.timers = @ - 1])))
  /\ Quiet
  /\ UNCHANGED <<config, stopped>>
  /\ UNCHANGED <<db, hub, adapter, session, pair>>

\* The open transport delivers one frame of the stream.
Deliver(tag, body) ==
  /\ eventSource = OPEN
  /\ frame' = [tag |-> tag, parsed |-> JSONParse(body).ok]
  /\ calls' = Dispatch(Self, tag, body)
  /\ lastOp' = "deliver"
  /\ UNCHANGED <<config, prog, stopped, attempts, givenUp>>
  /\ UNCHANGED <<db, hub, adapter, session, pair>>

Next ==
  \/ Connect
  \/ Disconnect
  \/ \E t \in EventTypes, h \in Handlers : On(t, h)
  \/ \E t \in EventTypes, h \in Handlers : Off(t, h)
  \/ OnOpen
  \/ OnError
  \/ TimerFire
  \/ \E tag \in FrameTags, body \in Bodies : Deliver(tag, body)

Spec == Init /\ [][Next]_vars

\* The datastore alone, next to a client that is never used.
InitDatastore ==
  /\ ClientAtRest
  /\ InitDb
  /\ InitHubIdle
  /\ InitAdapter
  /\ InitSessions
  /\ InitTwin

SpecDb == InitDatastore /\ [][NextDb]_vars

\* The Hub alone, next to an empty datastore and an unused client.
InitBroadcast ==
  /\ ClientAtRest
  /\ InitDb
  /\ InitHub
  /\ InitAdapter
  /\ InitSessions
  /\ InitTwin

SpecHub == InitBroadcast /\ [][NextHub]_vars

\* The Hub, with its default policy, and the sessions that hold its handles.
InitStreams ==
  /\ ClientAtRest
  /\ InitDb
  /\ InitHubIdle
  /\ InitAdapter
  /\ InitSessions
  /\ InitTwin

SpecSession == InitStreams /\ [][NextSession]_vars

\* A session whose write failed goes on to unregister.
SpecSessionLive ==
  SpecSession /\ \A h \in Subscribers : WF_vars(SessionEnds(h))

\* The adapter alone.
InitSource ==
  /\ ClientAtRest
  /\ InitDb
  /\ InitHubIdle
  /\ InitAdapter
  /\ InitSessions
  /\ InitTwin

SpecAdapter == InitSource /\ [][NextAdapter]_vars

\* The backoff delay always passes.
SpecAdapterLive == SpecAdapter /\ WF_vars(AdRetry)

\* A client constructed with { reconnect: true, maxRetries: 0 }; one of the
\* application's callbacks throws whenever it is invoked.
InitEdge ==
  /\ options = [reconnect |-> TRUE, maxRetries |-> 0]
  /\ urlOk \in BOOLEAN
  /\ throwers = {"h1"}
  /\ eventSource = NewClient.eventSource
  /\ esListeners = NewClient.esListeners
  /\ nativeHandlers = NewClient.nativeHandlers
  /\ retryCount = NewClient.retryCount
  /\ listeners = NewClient.listeners
  /\ timers = NewClient.timers
  /\ nonClosed = NewClient.nonClosed
  /\ lastOp = "new"
  /\ frame = NoFrame
  /\ calls = NoCalls
  /\ stopped = FALSE
  /\ attempts = 0
  /\ givenUp = FALSE
  /\ InitDb
  /\ InitHubIdle
  /\ InitAdapter
  /\ InitSessions
  /\ InitTwin

SpecEdge == InitEdge /\ [][Next]_vars

\* ------------------------------------------------- the two clients, paired
\* One SSEClient of queries.ts and one of lib/sse-client.ts, built with the
\* default options for the same URL, receive the same calls from the
\* application and the same events from their transports.  stopped,
\* attempts and givenUp are the history of the single client and are not
\* kept here.
BothBecome(s, s4) ==
  /\ Becomes(s)
  /\ twin' = s4

NoDispatch ==
  /\ Quiet
  /\ twinCalls' = NoCalls

PairConnect ==
  /\ ~CanRetry(Self) \/ urlOk \/ eventSource # NULL \/ timers < MaxTimers
  /\ BothBecome(connect(Self), connect4(twin))
  /\ lastOp' = "connect"
  /\ NoDispatch
  /\ UNCHANGED <<config, stopped, attempts, givenUp>>
  /\ UNCHANGED <<db, hub, adapter, session>>

PairDisconnect ==
  /\ BothBecome(disconnect(Self), disconnect4(twin))
  /\ lastOp' = "disconnect"
  /\ NoDispatch
  /\ UNCHANGED <<config, stopped, attempts, givenUp>>
  /\ UNCHANGED <<db, hub, adapter, session>>

PairOn(t, h) ==
  /\ (t # MESSAGE /\ twin.eventSource # NULL) => twin.esListeners[t] < MaxNative
  /\ BothBecome(on(Self, t, h), on4(twin, t, h))
  /\ lastOp' = "on"
  /\ NoDispatch
  /\ UNCHANGED <<config, stopped, attempts, givenUp>>
  /\ UNCHANGED <<db, hub, adapter, session>>

PairOff(t, h) ==
  /\ BothBecome(off(Self, t, h), off4(twin, t, h))
  /\ lastOp' = "off"
  /\ NoDispatch
  /\ UNCHANGED <<config, stopped, attempts, givenUp>>
  /\ UNCHANGED <<db, hub, adapter, session>>

PairOnOpen ==
  /\ eventSource = CONNECTING /\ twin.eventSource = CONNECTING
  /\ BothBecome(onopen(Self), onopen(twin))
  /\ lastOp' = "open"
  /\ NoDispatch
  /\ UNCHANGED <<config, stopped, attempts, givenUp>>
  /\ UNCHANGED <<db, hub, adapter, session>>

PairOnError ==
  /\ eventSource # NULL /\ twin.eventSource # NULL
  /\ CanRetry(Self) => timers < MaxTimers
  /\ BothBecome(handleError(Self), handleError4(twin))
  /\ lastOp' = "error"
  /\ NoDispatch
  /\ UNCHANGED <<config, stopped, attempts, givenUp>>
  /\ UNCHANGED <<db, hub, adapter, session>>

PairTimerFire ==
  /\ timers > 0 /\ twin.timers > 0
  /\ BothBecome(connect([Self EXCEPT !.timers = @ - 1]),
                connect4([twin EXCEPT !.timers = @ - 1]))
  /\ lastOp' = "timer"
  /\ NoDispatch
  /\ UNCHANGED <<config, stopped, attempts, givenUp>>
  /\ UNCHANGED <<db, hub, adapter, session>>

PairDeliver(tag, body) ==
  /\ eventSource = OPEN /\ twin.eventSource = OPEN
  /\ frame' = [tag |-> tag, parsed |-> JSONParse(body).ok]
  /\ calls' = Dispatch(Self, tag, body)
  /\ twinCalls' = Dispatch(twin, tag, body)
  /\ lastOp' = "deliver"
  /\ UNCHANGED <<config, prog, twin, stopped, attempts, givenUp>>
  /\ UNCHANGED <<db, hub, adapter, session>>

NextPair ==
  \/ PairConnect
  \/ PairDisconnect
  \/ \E t \in EventTypes, h \in Handlers : PairOn(t, h)
  \/ \E t \in EventTypes, h \in Handlers : PairOff(t, h)
  \/ PairOnOpen
  \/ PairOnError
  \/ PairTimerFire
  \/ \E tag \in FrameTags, body \in Bodies : PairDeliver(tag, body)

InitPair ==
  /\ ClientAtRest
  /\ InitDb
  /\ InitHubIdle
  /\ InitAdapter
  /\ InitSessions
  /\ InitTwin

SpecPair == InitPair /\ [][NextPair]_vars

TypeOK ==
  /\ eventSource \in {NULL, CONNECTING, OPEN}
  /\ retryCount \in 0..DEFAULT_MAX_RETRIES
  /\ timers \in 0..MaxTimers
  /\ nativeHandlers \subseteq CustomTypes
  /\ DOMAIN listeners \subseteq EventTypes
\* ------------------------------------------------------------ useEventSSE
\* The hook of lib/use-event-sse.ts.  Its effect builds one SSEClient with
\* the options below, registers a single callback under "message" and calls
\* connect(); its cleanup calls disconnect().  The callback calls
\* queryClient.invalidateQueries once for each of the two query keys.
HookOptions == [reconnect |-> TRUE, maxRetries |-> DEFAULT_MAX_RETRIES]

HookCallback == "h1"

QueryKeys == {"events", "participants"}

\* invalidateQueries calls made by the last step, per query key.
\* Variant: the callback invalidates the events collection only.
HookInvalidations_EventsOnly ==
  [k \in QueryKeys |->
     IF k = "events" THEN calls[<<MESSAGE, HookCallback>>] ELSE 0]

HookInvalidations ==
  [k \in QueryKeys |-> calls[<<MESSAGE, HookCallback>>]]

\* The state after the effect has run (the component is mounted).
InitHook ==
  /\ options = HookOptions
  /\ urlOk \in BOOLEAN
  /\ throwers = {}
  /\ LET mounted == connect(on(NewClient, MESSAGE, HookCallback))
     IN  /\ eventSource = mounted.eventSource
         /\ esListeners = mounted.esListeners
         /\ nativeHandlers = mounted.nativeHandlers
         /\ retryCount = mounted.retryCount
         /\ listeners = mounted.listeners
         /\ timers = mounted.timers
         /\ nonClosed = mounted.nonClosed
  /\ lastOp = "connect"
  /\ frame = NoFrame
  /\ calls = NoCalls
  /\ stopped = FALSE
  /\ attempts = 1
  /\ givenUp = FALSE
  /\ InitDb
  /\ InitHubIdle
  /\ InitAdapter
  /\ InitSessions
  /\ InitTwin

\* The effect's cleanup: the component unmounts.
Unmount == Disconnect

NextHook ==
  \/ OnOpen
  \/ OnError
  \/ TimerFire
  \/ \E tag \in FrameTags, body \in Bodies : Deliver(tag, body)
  \/ Unmount

SpecHook == InitHook /\ [][NextHook]_vars

\* ================================================================ claims
Registered(k, h) == k \in DOMAIN listeners /\ h \in Range(listeners[k])

\* The frame reaches the controller: a "message" event through onmessage,
\* any other type through a listener attached for that type.
Reaches(tag) ==
  EventTypeOf(tag) = MESSAGE \/ esListeners[EventTypeOf(tag)] >= 1

\* Dual dispatch as the specification states it: one call per callback
\* registered under the event's own type or under "message".
Expected(tag) ==
  [p \in EventTypes \X Handlers |->
     IF Reaches(tag) /\ Registered(p[1], p[2])
        /\ p[1] \in {EventTypeOf(tag), MESSAGE}
       THEN 1 ELSE 0]

\* C1: with reconnect enabled and maxRetries = N >= 1, a run that starts
\* with connect() and in which every attempt fails makes at most N + 1
\* attempts; after failure k <= N exactly one retry is pending and
\* retryCount = k; after failure N + 1 nothing is pending (given up); an
\* attempt that opens leaves the client Open with nothing pending.
C1_RetryBudget ==
  (attempts > 0 /\ options.reconnect /\ options.maxRetries >= 1) =>
    /\ attempts <= options.maxRetries + 1
    /\ eventSource = CONNECTING => retryCount = attempts - 1 /\ timers = 0
    /\ eventSource = OPEN => retryCount = 0 /\ timers = 0
    /\ (eventSource = NULL /\ attempts <= options.maxRetries) =>
         timers = 1 /\ retryCount = attempts /\ ~givenUp
    /\ (eventSource = NULL /\ attempts = options.maxRetries + 1) =>
         timers = 0 /\ retryCount = options.maxRetries /\ givenUp

C1_Witness ==
  /\ options.reconnect /\ options.maxRetries = 5 /\ urlOk
  /\ attempts = 6 /\ lastOp = "error"
  /\ eventSource = NULL /\ timers = 0 /\ givenUp

\* C2: after the application's disconnect(), and until its next connect(),
\* no transport exists and no frame is dispatched.
C2_NothingAfterDisconnect ==
  stopped => (eventSource = NULL /\ frame = NoFrame)

\* C3 (as claimed): retryCount is 0 whenever disconnect() returns (stated
\* for a client whose EventSource construction succeeds).
C3_DisconnectClearsRetryCount ==
  (urlOk /\ lastOp = "disconnect") => retryCount = 0

\* C3 (amended): disconnect() tears down the transport and leaves
\* retryCount as it was.
C3_DisconnectKeepsRetryCount ==
  [][lastOp' = "disconnect" =>
       (eventSource' = NULL /\ retryCount' = retryCount)]_vars

C3_Witness ==
  urlOk /\ lastOp = "disconnect" /\ retryCount > 0 /\ nonClosed = 0

\* C4: retryCount goes up by one exactly when handleError schedules a
\* retry, goes to zero at onopen, and is changed by nothing else: not by a
\* timer firing, connect(), disconnect(), on(), off() or a frame.  (A
\* connect() whose EventSource construction throws runs handleError and
\* counts as the error it is handled as.)
C4_RetryCounter ==
  [][LET ran == \/ lastOp' = "error"
                \/ /\ lastOp' \in {"connect", "timer"}
                   /\ eventSource = NULL
                   /\ ~urlOk
         before == IF lastOp' = "timer" THEN timers - 1 ELSE timers
         scheduled == timers' - before
     IN  /\ lastOp' = "open" => retryCount' = 0
         /\ ran => scheduled \in {0, 1} /\ retryCount' = retryCount + scheduled
         /\ (lastOp' # "open" /\ ~ran) =>
              retryCount' = retryCount /\ timers' = before]_vars

C4_Witness ==
  lastOp = "open" /\ attempts >= 3 /\ retryCount = 0 /\ eventSource = OPEN

\* C5: connect() with a transport in place changes nothing of the client
\* (transport, native listeners, retryCount, registry, timers), and a
\* second connect() after one that established a transport changes
\* nothing either.
C5_ConnectIdempotent ==
  /\ eventSource # NULL => connect(Self) = Self
  /\ connect(Self).eventSource # NULL =>
       connect(connect(Self)) = connect(Self)

C5_Witness ==
  /\ lastOp = "connect" /\ eventSource = OPEN
  /\ nativeHandlers = CustomTypes /\ timers > 0

\* C6: a typed frame T with a JSON body that reaches the controller calls
\* each callback registered under T once, each callback registered under
\* "message" once, and none registered under another type; and a type
\* with a registered callback has exactly one listener on the transport,
\* whatever the order of on() and connect().
C6_DualDispatch ==
  /\ \A t \in CustomTypes :
       (eventSource # NULL /\ \E h \in Handlers : Registered(t, h)) =>
         esListeners[t] = 1
  /\ (frame.tag \in CustomTypes /\ frame.parsed /\ Reaches(frame.tag)) =>
       \A k \in EventTypes, h \in Handlers :
         calls[<<k, h>>] =
           IF Registered(k, h) /\ k \in {frame.tag, MESSAGE} THEN 1 ELSE 0

C6_Witness ==
  /\ frame.tag = "participant-updated" /\ frame.parsed
  /\ calls[<<"participant-updated", "h1">>] = 1
  /\ calls[<<"participant-updated", "h2">>] = 1
  /\ calls[<<MESSAGE, "h1">>] = 1
  /\ Registered("room-renamed", "h2")
  /\ calls[<<"room-renamed", "h2">>] = 0

\* C7: every frame with a JSON body delivered on the open connection
\* calls each callback registered under "message" once, whatever its type.
C7_WildcardReceivesEveryEvent ==
  (frame.tag # NULL /\ frame.parsed) =>
    \A h \in Handlers : Registered(MESSAGE, h) => calls[<<MESSAGE, h>>] = 1

\* C8: an untyped frame with a JSON body calls each callback registered
\* under "message" exactly once and no other callback.
C8_UntypedToWildcardOnly ==
  (frame.tag = UNTYPED /\ frame.parsed) =>
    \A k \in EventTypes, h \in Handlers :
      calls[<<k, h>>] = IF k = MESSAGE /\ Registered(MESSAGE, h) THEN 1 ELSE 0

C8_Witness ==
  /\ frame.tag = UNTYPED /\ frame.parsed
  /\ calls[<<MESSAGE, "h1">>] = 1 /\ calls[<<MESSAGE, "h2">>] = 1
  /\ Registered("room-renamed", "h1") /\ esListeners["room-renamed"] = 1
  /\ calls[<<"room-renamed", "h1">>] = 0

\* C9: a frame whose body is not JSON calls no callback and changes
\* nothing of the client (transport, retryCount, registry, timers); the
\* valid frame that follows it is dispatched by the dual-dispatch rule.
C9_MalformedIsNonFatal ==
  [][/\ (lastOp' = "deliver" /\ ~frame'.parsed) =>
          (calls' = NoCalls /\ UNCHANGED prog)
     /\ (lastOp = "deliver" /\ ~frame.parsed
           /\ lastOp' = "deliver" /\ frame'.parsed) =>
          (calls' = Expected(frame'.tag) /\ UNCHANGED prog)]_vars

C9_Witness ==
  /\ lastOp = "deliver" /\ ~frame.parsed /\ frame.tag = "participant-updated"
  /\ Registered("participant-updated", "h1") /\ Registered(MESSAGE, "h2")
  /\ eventSource = OPEN /\ calls = NoCalls

\* C10: once handleError has given up, the client never has a transport
\* again.  Stated for the steps the controller takes on its own (timers
\* and transport callbacks); the claim adds connect() by the application.
C10_GivenUpIsTerminal ==
  givenUp => eventSource = NULL

\* C11: while useEventSSE is mounted, every message the client receives,
\* whatever its type, invalidates the events collection exactly once and
\* the participants collection exactly once.  Stated for the frames with a
\* JSON body; a frame with an `event:` label refutes it, because the hook
\* registers under "message" only and no listener is attached for the label.
C11_EveryMessageInvalidates ==
  (frame.tag # NULL /\ frame.parsed) =>
    \A k \in QueryKeys : HookInvalidations[k] = 1

\* C12 as stated: an open that follows a loss of the transport invalidates
\* both collections by itself, without any message.
C12_ReopenInvalidates ==
  [][(lastOp' = "open" /\ retryCount > 0) =>
       \A k \in QueryKeys : HookInvalidations'[k] >= 1]_vars

\* C12, amended: invalidation is triggered by messages only.  A step
\* invalidates each collection exactly once when it delivers a frame with a
\* JSON body that the transport dispatches as "message", and no step of any
\* other kind -- an open after a loss included -- invalidates anything.
C12_ResyncOnMessageOnly ==
  \A k \in QueryKeys :
    HookInvalidations[k] =
      IF lastOp = "deliver" /\ frame.parsed /\ EventTypeOf(frame.tag) = MESSAGE
        THEN 1 ELSE 0

\* The transport was lost while connecting and a later attempt has just
\* reached Open; nothing was invalidated.
C12_Witness ==
  /\ lastOp = "open"
  /\ attempts >= 2
  /\ eventSource = OPEN
  /\ ~stopped
  /\ \A k \in QueryKeys : HookInvalidations[k] = 0

\* C13: at most one EventSource that has not been closed exists at any
\* time, it is the one this.eventSource holds, and the step that handles a
\* transport error leaves none: the transport is closed by the time the
\* retry is scheduled.
C13_AtMostOneTransport ==
  /\ nonClosed <= 1
  /\ (nonClosed = 1) = (eventSource # NULL)
  /\ lastOp = "error" => (eventSource = NULL /\ nonClosed = 0)

\* A transport error has just scheduled a retry while an earlier timer is
\* still pending, and no transport is left open.
C13_Witness ==
  /\ lastOp = "error"
  /\ timers = 2
  /\ retryCount >= 2
  /\ nonClosed = 0

\* C14: with reconnect = false the controller never schedules a timer,
\* never counts a retry and never opens a transport by itself, and a
\* transport error leaves the transport torn down.
C14_NoReconnect ==
  ~options.reconnect =>
    /\ timers = 0
    /\ retryCount = 0
    /\ lastOp # "timer"
    /\ lastOp = "error" => eventSource = NULL

\* reconnect = false with retries left in maxRetries, right after a
\* transport error on a transport that had been created.
C14_Witness ==
  /\ ~options.reconnect
  /\ options.maxRetries = DEFAULT_MAX_RETRIES
  /\ urlOk
  /\ lastOp = "error"
  /\ eventSource = NULL
  /\ givenUp

C16_OnePerRowOnItsChannel ==
  /\ Len(notified) = Len(rowOps)
  /\ \A i \in 1..Len(rowOps) :
       LET op == rowOps[i]
           n == notified[i]
           row == IF op.op = "DELETE" THEN op.old ELSE op.new
       IN  /\ n.channel = (IF op.table = "events" THEN "event_changes"
                                                  ELSE "participant_changes")
           /\ n.payload.operation = op.op
           /\ n.payload.table = op.table
           /\ n.payload.id = row.id
           /\ ("event_id" \in DOMAIN n.payload) = (op.table = "participants")
           /\ op.table = "participants" => n.payload.event_id = row.event_id

\* One DELETE on events removed two participants by cascade: three
\* row-level operations, three notifications.
C16_Witness ==
  /\ Len(rowOps) = 3
  /\ rowOps[3].table = "events"
  /\ rowOps[1].table = "participants"
  /\ rowOps[1].op = "DELETE"
  /\ "event_id" \in DOMAIN notified[1].payload

\* The number of the last Publish whose delivery to h is over.
Due(h) == IF inflight # 0 /\ h \in todo THEN published - 1 ELSE published

Holds(h) == received[h] \o queue[h]

\* C17: a subscriber that is registered and whose queue was never full at
\* a delivery has dequeued, or still has pending, exactly the events of the
\* Publish calls begun since it registered, once each and in publish order,
\* whatever the other subscribers did.
C17_ExactlyInOrder ==
  \A h \in registry \ overflowed :
    Holds(h) = [i \in 1..(Due(h) - regAt[h]) |-> regAt[h] + i]

\* One subscriber has every event of MaxPublish calls, part dequeued and
\* part pending, while another one's queue has overflowed.
C17_Witness ==
  \E h \in registry \ overflowed :
    /\ regAt[h] = 0
    /\ Len(Holds(h)) = MaxPublish
    /\ received[h] # <<>>
    /\ queue[h] # <<>>
    /\ overflowed # {}

\* C18: no queue ever holds more than Capacity events; under the
\* drop-subscriber policy a delivery that finds the subscriber's queue full
\* removes the subscriber and discards its queue, the subscriber stays
\* absent, and the Publish can take its next step.
C18_OverflowDropsSubscriber ==
  /\ \A h \in Subscribers : Len(queue[h]) <= Capacity
  /\ policy = DROP_SUBSCRIBER =>
       /\ overflowed \cap registry = {}
       /\ (lastHub.op = "deliver" /\ lastHub.registered
             /\ lastHub.pending = Capacity) =>
            (lastHub.h \notin registry /\ queue[lastHub.h] = <<>>)
       /\ \A h \in todo :
            Len(queue[h]) = Capacity => ENABLED PublishDeliver(h)
       /\ (inflight # 0 /\ todo = {}) => ENABLED PublishReturn

\* A subscriber that never consumed was dropped by Publish Capacity + 1,
\* and the next Publish has returned, having served another subscriber.
C18_Witness ==
  /\ policy = DROP_SUBSCRIBER
  /\ published = Capacity + 2
  /\ lastHub.op = "return"
  /\ \E h \in overflowed, g \in registry :
       /\ regAt[h] = 0
       /\ received[h] = <<>>
       /\ published \in Range(Holds(g))

\* C19: a subscriber never holds an event of a Publish that had begun when
\* it registered, one that registers during a Publish is not in that
\* Publish's fan-out, and when a Publish returns every subscriber that was
\* registered before it began, is still registered and did not overflow
\* holds its event exactly once.
C19_RegisterDuringPublish ==
  /\ \A h \in Subscribers :
       /\ \A e \in Range(Holds(h)) : e > regAt[h]
       /\ (inflight # 0 /\ regAt[h] = published) => h \notin todo
  /\ lastHub.op = "return" =>
       \A g \in registry \ overflowed :
         regAt[g] < published =>
           Cardinality({i \in 1..Len(Holds(g)) : Holds(g)[i] = published}) = 1

\* A Publish has returned; one subscriber registered while it was in
\* flight and holds nothing, another one holds its event.
C19_Witness ==
  /\ lastHub.op = "return"
  /\ published >= 1
  /\ \E h, g \in registry :
       /\ regAt[h] = published
       /\ Holds(h) = <<>>
       /\ regAt[g] < published
       /\ published \in Range(queue[g])

\* C20: a subscriber that is not registered has no queue content, a
\* delivery of an in-flight Publish to a subscriber removed meanwhile
\* enqueues nothing and can always be taken, so the Publish goes on to
\* return, and Unregister of a handle that is not registered changes
\* nothing.
C20_UnregisterDuringPublish ==
  /\ \A h \in Subscribers \ registry : queue[h] = <<>>
  /\ (lastHub.op = "deliver" /\ ~lastHub.registered) =>
       queue[lastHub.h] = <<>>
  /\ \A h \in todo \ registry : ENABLED PublishDeliver(h)
  /\ \A h \in Subscribers :
       /\ unregister(unregister(Hub, h), h) = unregister(Hub, h)
       /\ h \notin registry => unregister(Hub, h) = Hub

\* The last delivery of a Publish went to a subscriber that was
\* unregistered while the Publish was in flight; the Publish can return.
C20_Witness ==
  /\ lastHub.op = "deliver"
  /\ ~lastHub.registered
  /\ lastHub.h \notin overflowed
  /\ lastHub.h <= issued
  /\ inflight # 0
  /\ todo = {}

AllowedAdapterStep ==
  /\ (adState' # adState) =>
       (\/ <<adState, adState'>> \in
            {<<AD_CONNECTING, AD_SUBSCRIBED>>,
             <<AD_SUBSCRIBED, AD_DISCONNECTED>>,
             <<AD_DISCONNECTED, AD_CONNECTING>>}
        \/ (adState' = AD_SHUTDOWN /\ adLast' = "shutdown"))
  /\ (adState = AD_SHUTDOWN) => (adState' = AD_SHUTDOWN)
  /\ (adEmitted' # adEmitted \/ adOut' # NoEvent) =>
       (adState = AD_SUBSCRIBED /\ adState' = AD_SUBSCRIBED)

\* C21: the adapter's state changes only along Connecting -> Subscribed,
\* Subscribed -> Disconnected and Disconnected -> Connecting, or into
\* Shutdown by an explicit shutdown, which it never leaves; a ChangeEvent
\* is emitted only by a step taken while Subscribed; and from Disconnected
\* the adapter always gets back to Connecting unless it is shut down.
C21_AdapterStateMachine ==
  /\ [][AllowedAdapterStep]_vars
  /\ (adState = AD_DISCONNECTED) ~> (adState \in {AD_CONNECTING, AD_SHUTDOWN})

\* The adapter has emitted an event, lost its connection and, its backoff
\* delay over, is Connecting again.
C21_Witness ==
  /\ adState = AD_CONNECTING
  /\ adLast = "retry"
  /\ adEmitted >= 1

\* C22: a session that has ended has no entry in the registry and no
\* queue, so no Publish enqueues for it, and a session whose write failed
\* always gets that far.
C22_FailedWriteUnregisters ==
  /\ [](\A h \in Subscribers :
          session[h] = S_ENDED => (h \notin registry /\ queue[h] = <<>>))
  /\ \A h \in Subscribers :
       (session[h] = S_FAILING) ~> (session[h] = S_ENDED /\ h \notin registry)

\* One session has ended after a failed write, a Publish has just
\* returned, and a session that is still running holds its event.
C22_Witness ==
  /\ lastHub.op = "return"
  /\ \E h, g \in Subscribers :
       /\ session[h] = S_ENDED
       /\ h \notin overflowed
       /\ session[g] = S_RUNNING
       /\ published \in Range(queue[g])

\* C23: the retry ceiling is the configured maxRetries, 0 included: with
\* reconnect = true and maxRetries = 0 a transport error gives up; no
\* reconnection is scheduled and nothing is counted as a retry.
C23_ZeroRetriesGivesUp ==
  (options.reconnect /\ options.maxRetries = 0 /\ lastOp = "error") =>
    (timers = 0 /\ retryCount = 0 /\ givenUp)

\* C24: registrations outlive transports.  Whatever transport is in place
\* (the first one, one the application asked for later, one opened by a
\* reconnection timer), each custom type with a registered callback has
\* exactly one native listener on it, and a typed frame with a JSON body
\* delivered on it calls each callback registered under its type once.
C24_RegistrationsOutliveTransports ==
  /\ eventSource # NULL =>
       \A t \in CustomTypes :
         (\E h \in Handlers : Registered(t, h)) =>
           (esListeners[t] = 1 /\ t \in nativeHandlers)
  /\ (lastOp = "deliver" /\ frame.parsed /\ frame.tag \in CustomTypes) =>
       \A h \in Handlers :
         Registered(frame.tag, h) => calls[<<frame.tag, h>>] = 1

\* A registered callback is called for a frame on the transport that the
\* second automatic reconnection of a run opened.
C24_Witness ==
  /\ lastOp = "deliver" /\ attempts >= 3 /\ eventSource = OPEN
  /\ frame.tag = "participant-updated" /\ frame.parsed
  /\ Registered("participant-updated", "h1")
  /\ calls[<<"participant-updated", "h1">>] = 1

\* C25: the two SSEClient implementations are observationally equivalent:
\* given the same calls and the same transport events, they are in the
\* same connection state with the same reconnections pending, and a frame
\* calls the same callbacks the same number of times in both.
C25_SameObservations ==
  /\ twin.eventSource = eventSource
  /\ twin.retryCount = retryCount
  /\ twin.timers = timers
  /\ twinCalls = calls

\* C26: handler isolation.  When a frame with a JSON body is dispatched and
\* a callback registered for it throws, every other callback registered
\* for it (under its type or under "message") is still called exactly
\* once, and the transport stays open with retryCount as it was.
C26_HandlerIsolation ==
  LET keys == {EventTypeOf(frame.tag), MESSAGE}
  IN  (/\ lastOp = "deliver" /\ frame.parsed /\ Reaches(frame.tag)
       /\ \E k \in keys, h \in throwers : Registered(k, h)) =>
        /\ eventSource = OPEN
        /\ \A k \in keys, h \in Handlers \ throwers :
             Registered(k, h) => calls[<<k, h>>] = 1

\* C27: in every reachable state 0 <= retryCount <= the retry ceiling in
\* effect, which is the maxRetries the client was constructed with (the
\* constructor's 5 when the application gave none).
C27_RetryCountWithinCeiling ==
  retryCount \in 0..options.maxRetries

\* C28: at most one reconnection timer is pending at any time, whatever
\* the interleaving of transport errors with connect() and disconnect().
C28_AtMostOneTimer ==
  timers <= 1

\* C29: isConnected() is true exactly in the Open state: it is true once
\* the transport has fired open and for as long as that transport is in
\* place, and false in a new client, while Connecting, while no transport
\* exists (a reconnection pending or not), right after disconnect() or a
\* transport error, and after giving up.
C29_IsConnectedIffOpen ==
  /\ lastOp = "open" => isConnected(Self)
  /\ isConnected(Self) => (eventSource # NULL /\ eventSource # CONNECTING)
  /\ (eventSource = OPEN /\ nonClosed = 1) => isConnected(Self)
  /\ lastOp \in {"new", "disconnect", "error"} => ~isConnected(Self)
  /\ givenUp => ~isConnected(Self)

\* isConnected() is true on the transport a reconnection opened, with no
\* other reconnection pending.
C29_Witness ==
  /\ isConnected(Self) /\ lastOp = "open"
  /\ attempts >= 2 /\ timers = 0

\* C30: off(type, handler) removes exactly that registration: for every
\* frame, the client after off() calls that callback under that type no
\* more and calls every other callback (same type, other types, wildcard)
\* as often as the client before off() would have; off() of a pair that
\* is not registered changes nothing; on() of a registered pair does not
\* make it fire twice.
C30_OffRemovesExactlyOne ==
  \A t \in EventTypes, h \in Handlers :
    /\ \A tag \in FrameTags, body \in Bodies :
         /\ Dispatch(off(Self, t, h), tag, body) =
              [Dispatch(Self, tag, body) EXCEPT ![<<t, h>>] = 0]
         /\ Registered(t, h) =>
              Dispatch(on(Self, t, h), tag, body) = Dispatch(Self, tag, body)
    /\ ~Registered(t, h) => off(Self, t, h) = Self
====
